---- MODULE Spec2Model ----
(***************************************************************************)
(* lib/libfrr.c: the option registry (opt_extend, frr_preinit,             *)
(* frr_opt_add), the option dispatcher (frr_opt, frr_getopt), the help     *)
(* exit (frr_help_exit) and the control-socket setup (frr_vty_serv).       *)
(***************************************************************************)
EXTENDS Integers, Sequences, FiniteSets, TLC

(***************************************************************************)
(* C strings.  A string is the sequence of its maximal runs of one         *)
(* character, [c |-> character, n |-> run length], so that a string of     *)
(* several thousand characters (a path longer than MAXPATHLEN, an option   *)
(* spec that fills comb_optstr) is a short value.  Two strings are equal   *)
(* exactly when their run sequences are equal.                             *)
(***************************************************************************)

\* The null pointer: no string has a run of length 0.
NULL == <<[c |-> "", n |-> 0]>>

\* The terminating NUL, as CharAt reads it past the end of a string.
NUL == ""

\* The string of k characters ch.
Rep(ch, k) == IF k <= 0 THEN <<>> ELSE <<[c |-> ch, n |-> k]>>

\* Concatenation (what strcat and the %s%s of a format produce).
Cat(s, t) ==
  IF s = <<>> THEN t
  ELSE IF t = <<>> THEN s
  ELSE IF s[Len(s)].c = t[1].c
       THEN SubSeq(s, 1, Len(s) - 1)
              \o <<[c |-> t[1].c, n |-> s[Len(s)].n + t[1].n]>>
              \o Tail(t)
       ELSE s \o t

\* The string spelled by a sequence of characters.
RECURSIVE Str(_)
Str(chars) ==
  IF chars = <<>> THEN <<>> ELSE Cat(Rep(Head(chars), 1), Str(Tail(chars)))

\* The number of characters: the sum of the run lengths, by halves.
RECURSIVE strlen(_)
strlen(s) ==
  IF s = <<>> THEN 0
  ELSE IF Len(s) = 1 THEN s[1].n
  ELSE LET m == Len(s) \div 2
       IN  strlen(SubSeq(s, 1, m)) + strlen(SubSeq(s, m + 1, Len(s)))

\* s[i - 1] in C: the i-th character, NUL from the terminator on.
RECURSIVE CharAt(_, _)
CharAt(s, i) ==
  IF s = <<>> THEN NUL
  ELSE IF i <= s[1].n THEN s[1].c
  ELSE CharAt(Tail(s), i - s[1].n)

\* The first k characters of s.
RECURSIVE Take(_, _)
Take(s, k) ==
  IF k <= 0 \/ s = <<>> THEN <<>>
  ELSE IF s[1].n >= k THEN <<[c |-> s[1].c, n |-> k]>>
  ELSE <<s[1]>> \o Take(Tail(s), k - s[1].n)

\* strrchr(s, ch): the string that starts at the last ch of s, or NULL.
strrchr(s, ch) ==
  LET at == {i \in 1..Len(s) : s[i].c = ch} IN
  IF at = {} THEN NULL
  ELSE LET i == CHOOSE j \in at : \A k \in at : k <= j
       IN  <<[c |-> ch, n |-> 1]>> \o SubSeq(s, i + 1, Len(s))

\* p + 1 for a pointer p into a string: the string without its first
\* character.
PtrInc(p) ==
  IF p[1].n = 1 THEN Tail(p) ELSE <<[c |-> p[1].c, n |-> p[1].n - 1]>> \o Tail(p)

\* sizeof(newpath) in frr_vty_serv: MAXPATHLEN of <sys/param.h>, PATH_MAX on
\* Linux.
MAXPATHLEN == 4096

\* snprintf(buf, size, "%s/%s", a, b): the formatted text cut to size - 1
\* characters.
snprintf(size, a, b) == Take(Cat(Cat(a, Rep("/", 1)), b), size - 1)

(***************************************************************************)
(* strtoul(nptr, &endptr, 0).  The result is the value as frr_opt stores   *)
(* it, converted to the int di->vty_port (a negated value -v wraps to      *)
(* ULONG_MAX - v + 1, which converts to the int -v), and endptr as the     *)
(* index of the character it points to.  Values are below 2^31: the        *)
(* inputs have at most nine digits.                                        *)
(***************************************************************************)
isspace(ch) == ch \in {" ", "\t", "\n"}

DigitVal(ch) ==
  CASE ch = "0" -> 0 [] ch = "1" -> 1 [] ch = "2" -> 2 [] ch = "3" -> 3
    [] ch = "4" -> 4 [] ch = "5" -> 5 [] ch = "6" -> 6 [] ch = "7" -> 7
    [] ch = "8" -> 8 [] ch = "9" -> 9
    [] ch \in {"a", "A"} -> 10 [] ch \in {"b", "B"} -> 11
    [] ch \in {"c", "C"} -> 12 [] ch \in {"d", "D"} -> 13
    [] ch \in {"e", "E"} -> 14 [] ch \in {"f", "F"} -> 15
    [] OTHER -> 36

RECURSIVE SkipSpace(_, _)
SkipSpace(s, i) == IF isspace(CharAt(s, i)) THEN SkipSpace(s, i + 1) ELSE i

RECURSIVE Digits(_, _, _, _)
Digits(s, i, base, acc) ==
  IF DigitVal(CharAt(s, i)) < base
  THEN Digits(s, i + 1, base, acc * base + DigitVal(CharAt(s, i)))
  ELSE [val |-> acc, end |-> i]

strtoul(s) ==
  LET i0   == SkipSpace(s, 1)
      neg  == CharAt(s, i0) = "-"
      i1   == IF CharAt(s, i0) \in {"+", "-"} THEN i0 + 1 ELSE i0
      hex  == /\ CharAt(s, i1) = "0"
              /\ CharAt(s, i1 + 1) \in {"x", "X"}
              /\ DigitVal(CharAt(s, i1 + 2)) < 16
      base == IF hex THEN 16 ELSE IF CharAt(s, i1) = "0" THEN 8 ELSE 10
      i2   == IF hex THEN i1 + 2 ELSE i1
      r    == Digits(s, i2, base, 0)
  IN  IF r.end = i2
      THEN [val |-> 0, end |-> 1]
      ELSE [val |-> IF neg THEN 0 - r.val ELSE r.val, end |-> r.end]

(***************************************************************************)
(* Option fragments.                                                       *)
(***************************************************************************)

\* Option codes: the character constants of frr_opt's switch, and the codes
\* getopt_long returns for an unknown option and at the end of the options.
Code ==
  [h |-> 104, v |-> 118, A |-> 65, P |-> 80, u |-> 117, g |-> 103,
   x |-> 120, y |-> 121, unknown |-> 63]

OPTION_VTYSOCK == 1000

EOF == -1

\* struct option {name, has_arg, flag, val}; flag is NULL in every descriptor.
Option(name, has_arg, val) ==
  [name |-> name, has_arg |-> has_arg, val |-> val]

\* A zeroed array element, and the { NULL } that ends a fragment's array.
NoOption == Option(NULL, "no_argument", 0)

lo_always ==
  <<Option(Str(<<"h", "e", "l", "p">>), "no_argument", Code.h),
    Option(Str(<<"v", "e", "r", "s", "i", "o", "n">>), "no_argument", Code.v),
    Option(Str(<<"v", "t", "y", "_", "s", "o", "c", "k", "e", "t">>), "required_argument", OPTION_VTYSOCK),
    NoOption>>

help_always_1 ==
  Str(<<
       " ", " ", "-", "h", ",", " ", "-", "-", "h", "e", "l", "p", " ", " ",
       " ", " ", " ", " ", " ", " ", " ", "D", "i", "s", "p", "l", "a", "y",
       " ", "t", "h", "i", "s", " ", "h", "e", "l", "p", " ", "a", "n", "d",
       " ", "e", "x", "i", "t", "\n">>)

help_always_2 ==
  Str(<<
       " ", " ", "-", "v", ",", " ", "-", "-", "v", "e", "r", "s", "i", "o",
       "n", " ", " ", " ", " ", " ", " ", "P", "r", "i", "n", "t", " ", "p",
       "r", "o", "g", "r", "a", "m", " ", "v", "e", "r", "s", "i", "o", "n",
       "\n">>)

help_always_3 ==
  Str(<<
       " ", " ", " ", " ", " ", " ", "-", "-", "v", "t", "y", "_", "s", "o",
       "c", "k", "e", "t", " ", " ", " ", "O", "v", "e", "r", "r", "i", "d",
       "e", " ", "v", "t", "y", " ", "s", "o", "c", "k", "e", "t", " ", "p",
       "a", "t", "h", "\n">>)

os_always ==
  [optstr   |-> Str(<<"h", "v">>),
   helpstr  |-> Cat(Cat(help_always_1, help_always_2), help_always_3),
   longopts |-> lo_always]

lo_vty ==
  <<Option(Str(<<"v", "t", "y", "_", "a", "d", "d", "r">>), "required_argument", Code.A),
    Option(Str(<<"v", "t", "y", "_", "p", "o", "r", "t">>), "required_argument", Code.P),
    NoOption>>

help_vty_1 ==
  Str(<<
       " ", " ", "-", "A", ",", " ", "-", "-", "v", "t", "y", "_", "a", "d",
       "d", "r", " ", " ", " ", " ", " ", "S", "e", "t", " ", "v", "t", "y",
       "'", "s", " ", "b", "i", "n", "d", " ", "a", "d", "d", "r", "e", "s",
       "s", "\n">>)

help_vty_2 ==
  Str(<<
       " ", " ", "-", "P", ",", " ", "-", "-", "v", "t", "y", "_", "p", "o",
       "r", "t", " ", " ", " ", " ", " ", "S", "e", "t", " ", "v", "t", "y",
       "'", "s", " ", "p", "o", "r", "t", " ", "n", "u", "m", "b", "e", "r",
       "\n">>)

os_vty ==
  [optstr   |-> Str(<<"A", ":", "P", ":">>),
   helpstr  |-> Cat(help_vty_1, help_vty_2),
   longopts |-> lo_vty]

lo_user ==
  <<Option(Str(<<"u", "s", "e", "r">>), "required_argument", Code.u),
    Option(Str(<<"g", "r", "o", "u", "p">>), "required_argument", Code.g),
    NoOption>>

help_user_1 ==
  Str(<<
       " ", " ", "-", "u", ",", " ", "-", "-", "u", "s", "e", "r", " ", " ",
       " ", " ", " ", " ", " ", " ", " ", "U", "s", "e", "r", " ", "t", "o",
       " ", "r", "u", "n", " ", "a", "s", "\n">>)

help_user_2 ==
  Str(<<
       " ", " ", "-", "g", ",", " ", "-", "-", "g", "r", "o", "u", "p", " ",
       " ", " ", " ", " ", " ", " ", " ", "G", "r", "o", "u", "p", " ", "t",
       "o", " ", "r", "u", "n", " ", "a", "s", "\n">>)

os_user ==
  [optstr   |-> Str(<<"u", ":", "g", ":">>),
   helpstr  |-> Cat(help_user_1, help_user_2),
   longopts |-> lo_user]

(***************************************************************************)
(* The program's state.                                                    *)
(***************************************************************************)
VARIABLES
  pc,            \* where the process is: "main", "setup", "scan", "tail",
                 \* "caller", "parsed", "serving", "exited", "aborted",
                 \* "undefined"
  di,            \* *di, the daemon's descriptor (privs->user, privs->group
                 \* are its fields user, group)
  comb_optstr,   \* static char comb_optstr[256]
  comb_lo,       \* static struct option comb_lo[64]
  comb_next_lo,  \* comb_next_lo - comb_lo
  comb_helpstr,  \* static char comb_helpstr[4096]
  errors,        \* static int errors
  vty_port_set,  \* frr_opt's static int vty_port_set
  vty_addr_set,  \* frr_opt's static int vty_addr_set
  argv,          \* the command line after argv[0]: each element an option
                 \* with its value
  optind,        \* the element of argv getopt_long scans next
  opt,           \* frr_getopt's opt
  ret,           \* what the last frr_opt call returned
  out,           \* what was written, in order: [fd, text]
  status,        \* <<>> while the process runs, <<st>> after exit(st)
  registered,    \* the fragments opt_extend was called with, in order
  vty_serv,      \* the arguments of the vty_serv_sock call, once serving
  calls,         \* the calls frr_init has made, in order
  master         \* <<>> until frr_init returns, then <<what it returned>>

vars ==
  <<pc, di, comb_optstr, comb_lo, comb_next_lo, comb_helpstr, errors,
    vty_port_set, vty_addr_set, argv, optind, opt, ret, out, status,
    registered, vty_serv, calls, master>>

\* sizeof(comb_optstr), the elements of comb_lo, sizeof(comb_helpstr).
OPTSTR_SIZE == 256

LO_SIZE == 64

HELPSTR_SIZE == 4096

FRR_NO_PRIVSEP == "FRR_NO_PRIVSEP"

FRR_NO_TCPVTY == "FRR_NO_TCPVTY"

(***************************************************************************)
(* The registry.                                                           *)
(***************************************************************************)

\* The combined table as one value.
Comb ==
  [optstr  |-> comb_optstr,
   lo      |-> comb_lo,
   next_lo |-> comb_next_lo,
   helpstr |-> comb_helpstr]

\* The descriptors of a fragment's array before its { NULL }.
RECURSIVE LongOpts(_)
LongOpts(longopts) ==
  IF Head(longopts).name = NULL THEN <<>>
  ELSE <<Head(longopts)>> \o LongOpts(Tail(longopts))

\* opt_extend with each fragment put in front of what is registered.
opt_extend_front(c, os) ==
  LET los == LongOpts(os.longopts) IN
  [optstr  |-> Cat(os.optstr, c.optstr),
   helpstr |-> Cat(os.helpstr, c.helpstr),
   lo      |-> [i \in DOMAIN c.lo |->
                  IF i < Len(los) THEN los[i + 1]
                  ELSE IF i < c.next_lo + Len(los) THEN c.lo[i - Len(los)]
                  ELSE c.lo[i]],
   next_lo |-> c.next_lo + Len(los)]

\* opt_extend(os) on the table c: two strcat and one memcpy per descriptor,
\* none of them bounded.  A descriptor copied to an index from LO_SIZE on
\* lands outside comb_lo, a string that grows to its buffer's size or more
\* ends outside its buffer.
opt_extend(c, os) ==
  LET los == LongOpts(os.longopts) IN
  [optstr  |-> Cat(c.optstr, os.optstr),
   helpstr |-> Cat(c.helpstr, os.helpstr),
   lo      |-> [i \in DOMAIN c.lo |->
                  IF i >= c.next_lo /\ i < c.next_lo + Len(los)
                  THEN los[i - c.next_lo + 1] ELSE c.lo[i]],
   next_lo |-> c.next_lo + Len(los)]

\* The table c extends past one of its three buffers.
Overrun(c) ==
  \/ strlen(c.optstr) >= OPTSTR_SIZE
  \/ c.next_lo > LO_SIZE
  \/ strlen(c.helpstr) >= HELPSTR_SIZE

\* The table becomes c.  A write past a buffer is undefined behaviour: the
\* build may stop the process there (a fortified strcat, a fault) or go on
\* with the memory behind the buffer overwritten, of which nothing more is
\* known.
Store(c, next_pc) ==
  /\ comb_optstr' = c.optstr
  /\ comb_lo' = c.lo
  /\ comb_next_lo' = c.next_lo
  /\ comb_helpstr' = c.helpstr
  /\ IF Overrun(c) THEN pc' \in {"aborted", "undefined"} ELSE pc' = next_pc

\* The fragments frr_preinit registers for the flags f.
PreinitFragments(f) ==
  <<os_always>>
    \o (IF FRR_NO_PRIVSEP \notin f THEN <<os_user>> ELSE <<>>)
    \o (IF FRR_NO_TCPVTY \notin f THEN <<os_vty>> ELSE <<>>)

frr_preinit ==
  /\ pc = "main"
  /\ LET c1 == opt_extend(Comb, os_always)
         c2 == IF FRR_NO_PRIVSEP \notin di.flags
               THEN opt_extend(c1, os_user) ELSE c1
         c3 == IF FRR_NO_TCPVTY \notin di.flags
               THEN opt_extend(c2, os_vty) ELSE c2
     IN  Store(c3, "setup")
  /\ registered' = registered \o PreinitFragments(di.flags)
  /\ UNCHANGED <<di, errors, vty_port_set, vty_addr_set, argv, optind, opt,
                 ret, out, status, vty_serv,
                 calls, master>>

\* The fragments the daemon itself has added.
Added == Len(registered) - Len(PreinitFragments(di.flags))

\* frr_opt_add(optstr, longopts, helpstr), called by the daemon before it
\* parses, with one of the fragments frags, at most n times.
frr_opt_add(frags, n) ==
  /\ pc = "setup"
  /\ Added < n
  /\ \E os \in frags :
       /\ Store(opt_extend(Comb, os), "setup")
       /\ registered' = Append(registered, os)
  /\ UNCHANGED <<di, errors, vty_port_set, vty_addr_set, argv, optind, opt,
                 ret, out, status, vty_serv,
                 calls, master>>

\* frr_opt_add called before frr_preinit: opt_extend does not use di.
frr_opt_add_first(frags) ==
  /\ pc = "main"
  /\ registered = <<>>
  /\ \E os \in frags :
       /\ Store(opt_extend(Comb, os), "main")
       /\ registered' = Append(registered, os)
  /\ UNCHANGED <<di, errors, vty_port_set, vty_addr_set, argv, optind, opt,
                 ret, out, status, vty_serv, calls, master>>

(***************************************************************************)
(* Help and exit.                                                          *)
(***************************************************************************)
Write(fd, text) == [fd |-> fd, text |-> text]

\* The call print_version(di->progname): what it writes is command.c's.
print_version == [call |-> "print_version", progname |-> "progname"]

\* frr_help_exit, were it to write to standard error whatever the status.
frr_help_exit_stderr(st) ==
  /\ out' = out
       \o (IF st # 0 THEN <<Write("stderr", "Invalid options.")>> ELSE <<>>)
       \o <<IF di.printhelp # NULL
            THEN Write("stderr", "printhelp")
            ELSE Write("stderr", "Usage")>>
       \o <<Write("stderr", "Report bugs to")>>
  /\ status' = <<st>>

\* frr_help_exit(st): the writes, then exit(st).
frr_help_exit(st) ==
  LET target == IF st # 0 THEN "stderr" ELSE "stdout" IN
  /\ out' = out
       \o (IF st # 0 THEN <<Write("stderr", "Invalid options.")>> ELSE <<>>)
       \o <<IF di.printhelp # NULL
            THEN Write(target, "printhelp")
            ELSE Write(target, "Usage")>>
       \o <<Write(target, "Report bugs to")>>
  /\ status' = <<st>>

(***************************************************************************)
(* The dispatcher.  frr_opt(opt) with optarg, one definition per case of   *)
(* its switch; each sets ret to what frr_opt returns, and leaves ret alone *)
(* where frr_opt does not return.                                          *)
(***************************************************************************)
\* frr_opt_h, were it to exit with the failure status after an error.
frr_opt_h_errors ==
  /\ frr_help_exit(IF errors # 0 THEN 1 ELSE 0)
  /\ UNCHANGED <<di, errors, vty_port_set, vty_addr_set, ret>>

frr_opt_h ==
  /\ frr_help_exit(0)
  /\ UNCHANGED <<di, errors, vty_port_set, vty_addr_set, ret>>

frr_opt_v ==
  /\ out' = Append(out, print_version)
  /\ status' = <<0>>
  /\ UNCHANGED <<di, errors, vty_port_set, vty_addr_set, ret>>

\* frr_opt_A without the case's test of FRR_NO_TCPVTY.
\* frr_opt_A, were a repeated -A counted and stored all the same.
frr_opt_A_overwrite(optarg) ==
  IF FRR_NO_TCPVTY \in di.flags
  THEN /\ ret' = 1
       /\ UNCHANGED <<di, errors, vty_port_set, vty_addr_set, out, status>>
  ELSE /\ IF vty_addr_set # 0
          THEN /\ out' = Append(out, Write("stderr", "-A option specified more than once!"))
               /\ errors' = errors + 1
          ELSE UNCHANGED <<out, errors>>
       /\ vty_addr_set' = 1
       /\ di' = [di EXCEPT !.vty_addr = optarg]
       /\ ret' = 0
       /\ UNCHANGED <<vty_port_set, status>>

frr_opt_A_noflag(optarg) ==
  IF vty_addr_set # 0
  THEN /\ out' = Append(out, Write("stderr", "-A option specified more than once!"))
       /\ errors' = errors + 1
       /\ ret' = 0
       /\ UNCHANGED <<di, vty_port_set, vty_addr_set, status>>
  ELSE /\ vty_addr_set' = 1
       /\ di' = [di EXCEPT !.vty_addr = optarg]
       /\ ret' = 0
       /\ UNCHANGED <<errors, vty_port_set, out, status>>

frr_opt_A(optarg) ==
  IF FRR_NO_TCPVTY \in di.flags
  THEN /\ ret' = 1
       /\ UNCHANGED <<di, errors, vty_port_set, vty_addr_set, out, status>>
  ELSE IF vty_addr_set # 0
  THEN /\ out' = Append(out, Write("stderr", "-A option specified more than once!"))
       /\ errors' = errors + 1
       /\ ret' = 0
       /\ UNCHANGED <<di, vty_port_set, vty_addr_set, status>>
  ELSE /\ vty_addr_set' = 1
       /\ di' = [di EXCEPT !.vty_addr = optarg]
       /\ ret' = 0
       /\ UNCHANGED <<errors, vty_port_set, out, status>>

\* frr_opt_P, were a repeated -P to exit where it is detected.
\* frr_opt_P, were the value validated before anything is stored.
frr_opt_P_validated(optarg) ==
  IF FRR_NO_TCPVTY \in di.flags
  THEN /\ ret' = 1
       /\ UNCHANGED <<di, errors, vty_port_set, vty_addr_set, out, status>>
  ELSE IF vty_port_set # 0
  THEN /\ out' = Append(out, Write("stderr", "-P option specified more than once!"))
       /\ errors' = errors + 1
       /\ ret' = 0
       /\ UNCHANGED <<di, vty_port_set, vty_addr_set, status>>
  ELSE LET n == strtoul(optarg) IN
       /\ IF CharAt(optarg, n.end) # NUL \/ CharAt(optarg, 1) = NUL
          THEN /\ out' = Append(out, Write("stderr", "invalid port number for -P option"))
               /\ errors' = errors + 1
               /\ UNCHANGED <<di, vty_port_set>>
          ELSE /\ vty_port_set' = 1
               /\ di' = [di EXCEPT !.vty_port = n.val]
               /\ UNCHANGED <<out, errors>>
       /\ ret' = 0
       /\ UNCHANGED <<vty_addr_set, status>>

frr_opt_P_exit(optarg) ==
  IF FRR_NO_TCPVTY \in di.flags
  THEN /\ ret' = 1
       /\ UNCHANGED <<di, errors, vty_port_set, vty_addr_set, out, status>>
  ELSE IF vty_port_set # 0
  THEN /\ errors' = errors + 1
       /\ frr_help_exit(1)
       /\ UNCHANGED <<di, vty_port_set, vty_addr_set, ret>>
  ELSE LET n == strtoul(optarg) IN
       /\ vty_port_set' = 1
       /\ di' = [di EXCEPT !.vty_port = n.val]
       /\ IF CharAt(optarg, n.end) # NUL \/ CharAt(optarg, 1) = NUL
          THEN /\ out' = Append(out, Write("stderr", "invalid port number for -P option"))
               /\ errors' = errors + 1
          ELSE UNCHANGED <<out, errors>>
       /\ ret' = 0
       /\ UNCHANGED <<vty_addr_set, status>>

frr_opt_P(optarg) ==
  IF FRR_NO_TCPVTY \in di.flags
  THEN /\ ret' = 1
       /\ UNCHANGED <<di, errors, vty_port_set, vty_addr_set, out, status>>
  ELSE IF vty_port_set # 0
  THEN /\ out' = Append(out, Write("stderr", "-P option specified more than once!"))
       /\ errors' = errors + 1
       /\ ret' = 0
       /\ UNCHANGED <<di, vty_port_set, vty_addr_set, status>>
  ELSE LET n == strtoul(optarg) IN
       /\ vty_port_set' = 1
       /\ di' = [di EXCEPT !.vty_port = n.val]
       /\ IF CharAt(optarg, n.end) # NUL \/ CharAt(optarg, 1) = NUL
          THEN /\ out' = Append(out, Write("stderr", "invalid port number for -P option"))
               /\ errors' = errors + 1
          ELSE UNCHANGED <<out, errors>>
       /\ ret' = 0
       /\ UNCHANGED <<vty_addr_set, status>>

\* frr_opt_VTYSOCK without the set-once test: the last path wins.
frr_opt_VTYSOCK_last(optarg) ==
  /\ di' = [di EXCEPT !.vty_sock_path = optarg]
  /\ ret' = 0
  /\ UNCHANGED <<errors, vty_port_set, vty_addr_set, out, status>>

frr_opt_VTYSOCK(optarg) ==
  IF di.vty_sock_path # NULL
  THEN /\ out' = Append(out, Write("stderr", "--vty_socket option specified more than once!"))
       /\ errors' = errors + 1
       /\ ret' = 0
       /\ UNCHANGED <<di, vty_port_set, vty_addr_set, status>>
  ELSE /\ di' = [di EXCEPT !.vty_sock_path = optarg]
       /\ ret' = 0
       /\ UNCHANGED <<errors, vty_port_set, vty_addr_set, out, status>>

\* frr_opt_u, were -u set-once like the listener options.
frr_opt_u_once(optarg) ==
  IF FRR_NO_PRIVSEP \in di.flags
  THEN /\ ret' = 1
       /\ UNCHANGED <<di, errors, vty_port_set, vty_addr_set, out, status>>
  ELSE IF di.user # NULL
  THEN /\ errors' = errors + 1
       /\ ret' = 0
       /\ UNCHANGED <<di, vty_port_set, vty_addr_set, out, status>>
  ELSE /\ di' = [di EXCEPT !.user = optarg]
       /\ ret' = 0
       /\ UNCHANGED <<errors, vty_port_set, vty_addr_set, out, status>>

frr_opt_u(optarg) ==
  IF FRR_NO_PRIVSEP \in di.flags
  THEN /\ ret' = 1
       /\ UNCHANGED <<di, errors, vty_port_set, vty_addr_set, out, status>>
  ELSE /\ di' = [di EXCEPT !.user = optarg]
       /\ ret' = 0
       /\ UNCHANGED <<errors, vty_port_set, vty_addr_set, out, status>>

frr_opt_g(optarg) ==
  IF FRR_NO_PRIVSEP \in di.flags
  THEN /\ ret' = 1
       /\ UNCHANGED <<di, errors, vty_port_set, vty_addr_set, out, status>>
  ELSE /\ di' = [di EXCEPT !.group = optarg]
       /\ ret' = 0
       /\ UNCHANGED <<errors, vty_port_set, vty_addr_set, out, status>>

\* frr_opt_default, were the dispatcher to count the code as an error
\* and go on scanning.
frr_opt_default_counts ==
  /\ errors' = errors + 1
  /\ ret' = 0
  /\ UNCHANGED <<di, vty_port_set, vty_addr_set, out, status>>

frr_opt_default ==
  /\ ret' = 1
  /\ UNCHANGED <<di, errors, vty_port_set, vty_addr_set, out, status>>

frr_opt(o, optarg) ==
  CASE o = Code.h -> frr_opt_h
    [] o = Code.v -> frr_opt_v
    [] o = Code.A -> frr_opt_A(optarg)
    [] o = Code.P -> frr_opt_P(optarg)
    [] o = OPTION_VTYSOCK -> frr_opt_VTYSOCK(optarg)
    [] o = Code.u -> frr_opt_u(optarg)
    [] o = Code.g -> frr_opt_g(optarg)
    [] OTHER -> frr_opt_default

(***************************************************************************)
(* getopt_long(argc, argv, comb_optstr, comb_lo, &lidx) on the next        *)
(* argument.  An argument is [form, key, val]: -k or --key, with the value *)
(* that follows it (NULL when none does).  The result is the code returned *)
(* and optarg.                                                             *)
(***************************************************************************)
Arg(form, key, val) == [form |-> form, key |-> key, val |-> val]

Unknown == [opt |-> Code.unknown, optarg |-> NULL]

\* The index of the first element of lo without a name: where the scanner
\* stops reading the array.
LoEnd(lo) ==
  LET ends == {i \in DOMAIN lo : lo[i].name = NULL}
  IN  CHOOSE i \in ends : \A j \in ends : i <= j

getopt_short(ch, val, optstr) ==
  LET at == {i \in 1..Len(optstr) : optstr[i].c = ch} IN
  IF ch = ":" \/ at = {} THEN Unknown
  ELSE LET i == CHOOSE j \in at : \A k \in at : j <= k
           takes == /\ optstr[i].n = 1
                    /\ i < Len(optstr)
                    /\ optstr[i + 1].c = ":"
       IN  IF takes /\ val = NULL THEN Unknown
           ELSE [opt |-> Code[ch], optarg |-> IF takes THEN val ELSE NULL]

getopt_longopt(name, val, lo) ==
  LET at == {i \in 0..(LoEnd(lo) - 1) : lo[i].name = name} IN
  IF at = {} THEN Unknown
  ELSE LET d == lo[CHOOSE j \in at : \A k \in at : j <= k] IN
       IF d.has_arg = "required_argument" /\ val = NULL THEN Unknown
       ELSE [opt    |-> d.val,
             optarg |-> IF d.has_arg = "required_argument" THEN val ELSE NULL]

getopt_long(a, optstr, lo) ==
  IF a.form = "short"
  THEN getopt_short(a.key[1].c, a.val, optstr)
  ELSE getopt_longopt(a.key, a.val, lo)

(***************************************************************************)
(* frr_getopt, in three steps: the sentinel it writes on entry, one        *)
(* iteration of its loop, and what follows the loop.                       *)
(***************************************************************************)

\* frr_getopt_call, were the error count and the set-once flags those of
\* one frr_getopt call: cleared on entry.
frr_getopt_call_fresh ==
  /\ pc \in {"setup", "caller"}
  /\ IF comb_next_lo >= LO_SIZE
     THEN /\ pc' \in {"aborted", "undefined"}
          /\ UNCHANGED comb_lo
     ELSE /\ comb_lo' = [comb_lo EXCEPT ![comb_next_lo].name = NULL]
          /\ pc' = "scan"
  /\ errors' = 0
  /\ vty_port_set' = 0
  /\ vty_addr_set' = 0
  /\ UNCHANGED <<di, comb_optstr, comb_next_lo, comb_helpstr, argv, optind,
                 opt, ret, out, status, registered, vty_serv, calls, master>>

\* frr_getopt's first statement, were the terminator written onto the last
\* registered descriptor.
frr_getopt_call_last ==
  /\ pc \in {"setup", "caller"}
  /\ IF comb_next_lo >= LO_SIZE
     THEN /\ pc' \in {"aborted", "undefined"}
          /\ UNCHANGED comb_lo
     ELSE /\ comb_lo' = [comb_lo EXCEPT ![comb_next_lo - 1].name = NULL]
          /\ pc' = "scan"
  /\ UNCHANGED <<di, comb_optstr, comb_next_lo, comb_helpstr, errors,
                 vty_port_set, vty_addr_set, argv, optind, opt, ret, out,
                 status, registered, vty_serv,
                 calls, master>>

\* comb_next_lo->name = NULL.  With LO_SIZE descriptors registered the
\* write is outside comb_lo.
frr_getopt_call ==
  /\ pc \in {"setup", "caller"}
  /\ IF comb_next_lo >= LO_SIZE
     THEN /\ pc' \in {"aborted", "undefined"}
          /\ UNCHANGED comb_lo
     ELSE /\ comb_lo' = [comb_lo EXCEPT ![comb_next_lo].name = NULL]
          /\ pc' = "scan"
  /\ UNCHANGED <<di, comb_optstr, comb_next_lo, comb_helpstr, errors,
                 vty_port_set, vty_addr_set, argv, optind, opt, ret, out,
                 status, registered, vty_serv,
                 calls, master>>

\* opt = getopt_long(...); if (frr_opt(opt)) break; while (opt != -1)
frr_getopt_loop ==
  /\ pc = "scan"
  /\ LET g == IF optind > Len(argv) THEN [opt |-> EOF, optarg |-> NULL]
              ELSE getopt_long(argv[optind], comb_optstr, comb_lo)
     IN  /\ optind' = IF optind > Len(argv) THEN optind ELSE optind + 1
         /\ opt' = g.opt
         /\ frr_opt(g.opt, g.optarg)
         /\ pc' = IF status' # <<>> THEN "exited"
                  ELSE IF ret' # 0 \/ g.opt = EOF THEN "tail" ELSE "scan"
  /\ UNCHANGED <<comb_optstr, comb_lo, comb_next_lo, comb_helpstr, argv,
                 registered, vty_serv, calls, master>>

\* frr_getopt_return without the test of errors: the end of the options is
\* returned whatever was recorded.
frr_getopt_return_lenient ==
  /\ pc = "tail"
  /\ pc' = IF opt = EOF THEN "parsed" ELSE "caller"
  /\ UNCHANGED <<di, comb_optstr, comb_lo, comb_next_lo, comb_helpstr, errors,
                 vty_port_set, vty_addr_set, argv, optind, opt, ret, out,
                 status, registered, vty_serv, calls, master>>

\* if (opt == -1 && errors) frr_help_exit(1); ... return opt;
frr_getopt_return ==
  /\ pc = "tail"
  /\ IF opt = EOF /\ errors # 0
     THEN /\ frr_help_exit(1)
          /\ pc' = "exited"
     ELSE /\ pc' = IF opt = EOF THEN "parsed" ELSE "caller"
          /\ UNCHANGED <<out, status>>
  /\ UNCHANGED <<di, comb_optstr, comb_lo, comb_next_lo, comb_helpstr, errors,
                 vty_port_set, vty_addr_set, argv, optind, opt, ret,
                 registered, vty_serv, calls, master>>

(***************************************************************************)
(* The daemon around the library: the fragments it adds, what it does with *)
(* an option frr_getopt hands back, and its frr_vty_serv call.             *)
(***************************************************************************)

\* The fragments the daemon added, after those of frr_preinit.
IsDaemons(os) == os \notin {os_always, os_user, os_vty}

DaemonFragments == SelectSeq(registered, IsDaemons)

\* The code o is one of the daemon's own options.
DaemonOwns(o) ==
  \E k \in 1..Len(DaemonFragments) :
    LET os == DaemonFragments[k] IN
    \/ \E i \in 1..Len(os.optstr) :
         os.optstr[i].c # ":" /\ Code[os.optstr[i].c] = o
    \/ \E i \in 1..Len(LongOpts(os.longopts)) : os.longopts[i].val = o

\* The daemon's default: frr_help_exit(1) on a code that is not its own.
daemon_help_exit ==
  /\ pc = "caller"
  /\ ~DaemonOwns(opt)
  /\ frr_help_exit(1)
  /\ pc' = "exited"
  /\ UNCHANGED <<di, comb_optstr, comb_lo, comb_next_lo, comb_helpstr, errors,
                 vty_port_set, vty_addr_set, argv, optind, opt, ret,
                 registered, vty_serv, calls, master>>

\* A daemon that calls frr_help_exit itself, with a status of statuses, on
\* an option frr_getopt handed back to it.
daemon_help_exit_with(statuses) ==
  /\ pc = "caller"
  /\ \E st \in statuses : frr_help_exit(st)
  /\ pc' = "exited"
  /\ UNCHANGED <<di, comb_optstr, comb_lo, comb_next_lo, comb_helpstr, errors,
                 vty_port_set, vty_addr_set, argv, optind, opt, ret,
                 registered, vty_serv, calls, master>>

\* vty_serv_sock(addr, port, path) was called with these.
VtyServSock(addr, port, path) == [addr |-> addr, port |-> port, path |-> path]

\* frr_vty_serv(path), after the options were parsed.
frr_vty_serv(paths) ==
  /\ pc = "parsed"
  /\ \E path \in paths :
       vty_serv' =
         IF di.vty_sock_path # NULL
         THEN LET p    == strrchr(path, "/")
                  name == IF p # NULL THEN PtrInc(p) ELSE path
              IN  <<path, VtyServSock(di.vty_addr, di.vty_port,
                                      snprintf(MAXPATHLEN, di.vty_sock_path, name))>>
         ELSE <<path, VtyServSock(di.vty_addr, di.vty_port, path)>>
  /\ pc' = "serving"
  /\ UNCHANGED <<di, comb_optstr, comb_lo, comb_next_lo, comb_helpstr, errors,
                 vty_port_set, vty_addr_set, argv, optind, opt, ret, out,
                 status, registered, calls, master>>

(***************************************************************************)
(* frr_init.  Its collaborators (srandom, openzlog, zlog_set_level,        *)
(* zprivs_init, thread_master_create, signal_init) are other files': a     *)
(* call is recorded with the privilege configuration and the scheduling    *)
(* context that go into it or come out of it.                              *)
(***************************************************************************)
Call(fn, privs, m) == [fn |-> fn, privs |-> privs, master |-> m]

\* The contexts thread_master_create can return.
Masters == {"master1", "master2"}

\* The initializers that end the process themselves when they fail; the
\* others return.
Fallible == {"openzlog", "zprivs_init", "signal_init"}

\* frr_init with its calls in another order: the scheduling context created
\* before privilege separation is initialized.
frr_init_calls_early(m, cumulus) ==
  <<Call("srandom", <<>>, <<>>),
    Call("openzlog", <<>>, <<>>)>>
    \o (IF cumulus THEN <<Call("zlog_set_level", <<>>, <<>>)>> ELSE <<>>)
    \o <<Call("thread_master_create", <<>>, <<m>>),
         Call("zprivs_init", <<di.user, di.group>>, <<>>),
         Call("signal_init", <<>>, <<m>>)>>

\* The calls of frr_init, in the order of its statements, when
\* thread_master_create returns m; zlog_set_level is compiled in with
\* HAVE_CUMULUS.
frr_init_calls(m, cumulus) ==
  <<Call("srandom", <<>>, <<>>),
    Call("openzlog", <<>>, <<>>)>>
    \o (IF cumulus THEN <<Call("zlog_set_level", <<>>, <<>>)>> ELSE <<>>)
    \o <<Call("zprivs_init", <<di.user, di.group>>, <<>>),
         Call("thread_master_create", <<>>, <<m>>),
         Call("signal_init", <<>>, <<m>>)>>

\* frr_init, were it to go on after an initializer that failed.
frr_init_goes_on ==
  /\ pc = "parsed"
  /\ calls = <<>>
  /\ \E cumulus \in BOOLEAN, m \in Masters :
       /\ calls' = frr_init_calls(m, cumulus)
       /\ master' = <<m>>
  /\ \E fail \in Fallible \cup {"none"} :
       IF fail = "none" THEN UNCHANGED <<pc, status>>
       ELSE pc' = "exited" /\ status' = <<1>>
  /\ UNCHANGED <<di, comb_optstr, comb_lo, comb_next_lo, comb_helpstr, errors,
                 vty_port_set, vty_addr_set, argv, optind, opt, ret, out,
                 registered, vty_serv>>

\* frr_init(), called once the options are parsed.  Either every call
\* returns and frr_init returns master, or one of the initializers fails:
\* the process ends in that call, with what follows it not executed.
frr_init ==
  /\ pc = "parsed"
  /\ calls = <<>>
  /\ \E cumulus \in BOOLEAN, m \in Masters, fail \in Fallible \cup {"none"} :
       LET all == frr_init_calls(m, cumulus)
           at  == CHOOSE i \in 1..Len(all) : all[i].fn = fail
       IN  IF fail = "none"
           THEN /\ calls' = all
                /\ master' = <<m>>
                /\ UNCHANGED <<pc, status>>
           ELSE /\ calls' = SubSeq(all, 1, at)
                /\ pc' = "exited"
                /\ status' = <<1>>
                /\ UNCHANGED master
  /\ UNCHANGED <<di, comb_optstr, comb_lo, comb_next_lo, comb_helpstr, errors,
                 vty_port_set, vty_addr_set, argv, optind, opt, ret, out,
                 registered, vty_serv>>

(***************************************************************************)
(* Inputs.                                                                 *)
(***************************************************************************)

\* Bounds: the options on a command line, the fragments a daemon adds, and
\* the sizes of the large fragments and of the long path.
MaxArgs == 2

MaxArgsLong == 3

MaxAdd == 1

MaxAddReg == 3

OptPad == 121

LoPad == 28

HelpPad == 1899

LongPath == 4090

\* A daemon's fragment: -x/--xopt, and an -A of its own.
os_daemon ==
  [optstr   |-> Str(<<"x", "A", ":">>),
   helpstr  |-> Str(<<" ", " ", "-", "x", "\n">>),
   longopts |-> <<Option(Str(<<"x", "o", "p", "t">>), "no_argument", Code.x),
                  NoOption>>]

\* Large fragments: OptPad option letters, LoPad long options, HelpPad
\* characters of help.
os_pad_opt ==
  [optstr   |-> Rep("y", OptPad),
   helpstr  |-> <<>>,
   longopts |-> <<NoOption>>]

os_pad_lo ==
  [optstr   |-> <<>>,
   helpstr  |-> <<>>,
   longopts |-> [i \in 1..(LoPad + 1) |->
                   IF i <= LoPad
                   THEN Option(Rep("w", i), "no_argument", 2000 + i)
                   ELSE NoOption]]

os_pad_help ==
  [optstr   |-> <<>>,
   helpstr  |-> Rep(" ", HelpPad),
   longopts |-> <<NoOption>>]

Fragments == {os_daemon}

FragmentsReg == {os_daemon, os_pad_opt, os_pad_lo, os_pad_help}

\* Option values.
addr1 == Str(<<"l", "o">>)

addr2 == Str(<<":", ":", "1">>)

path1 == Str(<<"/", "t", "m", "p", "/", "o", "v">>)

path2 == Rep("a", LongPath)

user1 == Str(<<"f", "r", "r">>)

user2 == Str(<<"r", "o", "o", "t">>)

port0 == Str(<<"0">>)

port7 == Str(<<"7">>)

path3 == Str(<<"/", "o", "v", "2">>)

PortValues ==
  {<<>>,
   Str(<<"a", "b", "c">>),
   Str(<<"1", "2", "3", "a", "b", "c">>),
   port0,
   Str(<<"6", "5", "5", "3", "5">>),
   Str(<<"-", "1">>),
   Str(<<"0", "x", "1", "F">>),
   Str(<<"0", "8">>),
   Str(<<" ", "7">>)}

\* -c val and --name val, the name that of the i-th descriptor of os.
Short(ch, val) == Arg("short", Str(<<ch>>), val)

Long(os, i, val) == Arg("long", os.longopts[i].name, val)

\* -Z: an option nobody registers.
arg_Z == Short("Z", NULL)

Args ==
  {Short("h", NULL), Long(os_always, 2, NULL),
   Short("A", addr1), Long(os_vty, 1, addr2),
   Short("P", port0), Long(os_vty, 2, Str(<<"a", "b", "c">>)),
   Long(os_always, 3, path1), Long(os_always, 3, path2),
   Short("x", NULL), arg_Z}

ArgsLong ==
  {Short("A", addr1), Long(os_vty, 1, addr2),
   Short("P", port0), Long(os_vty, 2, Str(<<"a", "b", "c">>)),
   Long(os_always, 3, path1), arg_Z}

ArgsPort ==
  {Short("P", p) : p \in PortValues} \cup {Long(os_vty, 2, Str(<<"7">>)), arg_Z}

ArgsPriv ==
  {Short("u", user1), Long(os_user, 1, user2),
   Short("g", user1), Long(os_user, 2, user2),
   Long(os_vty, 2, Str(<<"a", "b", "c">>)), arg_Z}

\* Every option a daemon of FragmentsReg can have registered, and -Z.
ArgsReg ==
  {Short("h", NULL), Long(os_always, 1, NULL),
   Short("v", NULL), Long(os_always, 2, NULL),
   Long(os_always, 3, path1),
   Short("u", user1), Long(os_user, 1, user2),
   Short("g", user1), Long(os_user, 2, user2),
   Short("A", addr1), Long(os_vty, 1, addr2),
   Short("P", port0), Long(os_vty, 2, port0),
   Short("x", NULL), Long(os_daemon, 1, NULL),
   Short("y", NULL), Long(os_pad_lo, 1, NULL), Long(os_pad_lo, LoPad, NULL),
   arg_Z}

BasePaths ==
  {Str(<<"/", "r", "u", "n", "/", "f", "o", "o", ".", "v", "t", "y">>),
   Str(<<"f", "o", "o", ".", "v", "t", "y">>)}

\* The command lines of at most n options, each one of args.
CommandLines(args, n) == UNION {[1..k -> args] : k \in 0..n}

(***************************************************************************)
(* The specifications.                                                     *)
(***************************************************************************)

\* The descriptor a daemon passes to frr_preinit, with the flags f and the
\* help renderer ph.
Daemon(f, ph) ==
  [flags         |-> f,
   printhelp     |-> ph,
   vty_addr      |-> NULL,
   vty_port      |-> 2601,
   vty_sock_path |-> NULL,
   user          |-> NULL,
   group         |-> NULL]

\* The process at the start of main: zeroed statics, a descriptor with any
\* flags and a help renderer of printhelps, a command line of lines.
InitWith(lines, printhelps) ==
  /\ pc = "main"
  /\ \E f \in SUBSET {FRR_NO_PRIVSEP, FRR_NO_TCPVTY} :
       \E ph \in printhelps : di = Daemon(f, ph)
  /\ comb_optstr = <<>>
  /\ comb_lo = [i \in 0..(LO_SIZE - 1) |-> NoOption]
  /\ comb_next_lo = 0
  /\ comb_helpstr = <<>>
  /\ errors = 0
  /\ vty_port_set = 0
  /\ vty_addr_set = 0
  /\ argv \in lines
  /\ optind = 1
  /\ opt = 0
  /\ ret = 0
  /\ out = <<>>
  /\ status = <<>>
  /\ registered = <<>>
  /\ vty_serv = <<>>
  /\ calls = <<>>
  /\ master = <<>>

\* A daemon that adds at most MaxAdd fragments of its own.
Next ==
  \/ frr_preinit
  \/ frr_opt_add(Fragments, MaxAdd)
  \/ frr_getopt_call
  \/ frr_getopt_loop
  \/ frr_getopt_return
  \/ daemon_help_exit
  \/ frr_vty_serv(BasePaths)

\* Command lines of up to MaxArgs options of every kind; a daemon with or
\* without a help renderer of its own.
Init == InitWith(CommandLines(Args, MaxArgs), {NULL, Str(<<"f">>)})

Spec == Init /\ [][Next]_vars

\* Longer command lines of the single-valued options.
InitLong == InitWith(CommandLines(ArgsLong, MaxArgsLong), {NULL})

SpecLong == InitLong /\ [][Next]_vars

\* Command lines with -P values of every shape.
InitPort == InitWith(CommandLines(ArgsPort, MaxArgs), {NULL})

SpecPort == InitPort /\ [][Next]_vars

\* Command lines of -u and -g.
InitPriv == InitWith(CommandLines(ArgsPriv, MaxArgsLong), {NULL})

SpecPriv == InitPriv /\ [][Next]_vars

\* A daemon that adds up to MaxAddReg fragments, large ones among them, and
\* is run with no option or a single one.
InitReg == InitWith(CommandLines(ArgsReg, 1), {NULL})

NextReg ==
  \/ frr_preinit
  \/ frr_opt_add(FragmentsReg, MaxAddReg)
  \/ frr_getopt_call
  \/ frr_getopt_loop
  \/ frr_getopt_return
  \/ daemon_help_exit
  \/ frr_vty_serv(BasePaths)

SpecReg == InitReg /\ [][NextReg]_vars

\* A daemon that goes on to frr_init after its options: command lines with
\* a repeated, a malformed, an unknown and a daemon's own option, and -h.
ArgsBoot ==
  {Short("A", addr1), Long(os_vty, 2, Str(<<"a", "b", "c">>)),
   Short("u", user1), Short("x", NULL), Short("h", NULL), arg_Z}

InitBoot == InitWith(CommandLines(ArgsBoot, MaxArgs), {NULL})

NextBoot ==
  \/ frr_preinit
  \/ frr_opt_add(Fragments, MaxAdd)
  \/ frr_getopt_call
  \/ frr_getopt_loop
  \/ frr_getopt_return
  \/ daemon_help_exit
  \/ frr_init
  \/ frr_vty_serv(BasePaths)

SpecBoot == InitBoot /\ [][NextBoot]_vars

\* A daemon that calls frr_help_exit with a status of its choice, with or
\* without a help renderer of its own.
ExitStatuses == {0, 1, 2}

ArgsHelp ==
  {Short("h", NULL), Long(os_always, 1, NULL), Short("v", NULL),
   Long(os_vty, 2, Str(<<"a", "b", "c">>)), Short("x", NULL), arg_Z}

InitHelp == InitWith(CommandLines(ArgsHelp, MaxArgs), {NULL, Str(<<"f">>)})

NextHelp ==
  \/ frr_preinit
  \/ frr_opt_add(Fragments, MaxAdd)
  \/ frr_getopt_call
  \/ frr_getopt_loop
  \/ frr_getopt_return
  \/ daemon_help_exit_with(ExitStatuses)

SpecHelp == InitHelp /\ [][NextHelp]_vars

\* A daemon that may add a fragment before it calls frr_preinit.
InitInit == InitWith(CommandLines(ArgsBoot, MaxArgs), {NULL})

NextInit ==
  \/ frr_opt_add_first(Fragments)
  \/ frr_preinit
  \/ frr_opt_add(Fragments, MaxAdd)
  \/ frr_getopt_call
  \/ frr_getopt_loop
  \/ frr_getopt_return
  \/ daemon_help_exit

SpecInit == InitInit /\ [][NextInit]_vars

\* Command lines on which -A, -P and --vty_socket come twice with different
\* values, with the daemon's own -x among them.
ArgsOnce ==
  {Short("A", addr1), Long(os_vty, 1, addr2),
   Short("P", port0), Long(os_vty, 2, port7),
   Long(os_always, 3, path1), Long(os_always, 3, path3),
   Short("x", NULL)}

InitOnce == InitWith(CommandLines(ArgsOnce, MaxArgsLong), {NULL})

SpecOnce == InitOnce /\ [][Next]_vars

(***************************************************************************)
(* Properties.                                                             *)
(***************************************************************************)

\* The argument a is the option of the i-th descriptor of os, in its long
\* form or as the short option with the descriptor's code.
IsOption(a, os, i) ==
  \/ a.form = "long" /\ a.key = os.longopts[i].name
  \/ /\ a.form = "short"
     /\ a.key[1].c \in DOMAIN Code
     /\ Code[a.key[1].c] = os.longopts[i].val

Is_h(a) == IsOption(a, os_always, 1)

Is_v(a) == IsOption(a, os_always, 2)

Is_S(a) == IsOption(a, os_always, 3)

Is_u(a) == IsOption(a, os_user, 1)

Is_g(a) == IsOption(a, os_user, 2)

Is_A(a) == IsOption(a, os_vty, 1)

Is_P(a) == IsOption(a, os_vty, 2)

\* The part of the command line the scanner has been through.
Scanned == SubSeq(argv, 1, optind - 1)

\* How many elements of the sequence s pass the test T.
Count(s, T(_)) == Cardinality({i \in 1..Len(s) : T(s[i])})

\* The characters of s from the i-th on are all in set.
AllIn(s, i, set) == \A j \in i..strlen(s) : CharAt(s, j) \in set

OctalDigits == {"0", "1", "2", "3", "4", "5", "6", "7"}

DecimalDigits == OctalDigits \cup {"8", "9"}

HexDigits ==
  DecimalDigits \cup {"a", "b", "c", "d", "e", "f", "A", "B", "C", "D", "E", "F"}

\* s is an unsigned integer from its first character to its last: decimal
\* digits (read as octal after a leading 0, as C does), or 0x and
\* hexadecimal digits.  No sign, no blank.
IsUnsignedInteger(s) ==
  /\ s # <<>>
  /\ \/ AllIn(s, 1, DecimalDigits) /\ CharAt(s, 1) # "0"
     \/ AllIn(s, 1, OctalDigits)
     \/ /\ CharAt(s, 1) = "0"
        /\ CharAt(s, 2) \in {"x", "X"}
        /\ strlen(s) >= 3
        /\ AllIn(s, 3, HexDigits)

TcpVty == FRR_NO_TCPVTY \notin di.flags

PrivSep == FRR_NO_PRIVSEP \notin di.flags

\* The scanner has reported the end of the options.
EndOfOptions == opt = EOF

(* C1: with the remote listener enabled, a command line on which -A (or   *)
(* -P, or --vty_socket) occurs twice or more has a nonzero error count    *)
(* when the scan reaches the end of the options, and the process then     *)
(* exits with the failure status; a command line of exactly one -A, one   *)
(* -P with a well-formed value and one --vty_socket ends the scan with    *)
(* error count 0, and frr_getopt returns to its caller.                   *)
C1_DuplicateFailsOnceSucceeds ==
  /\ ( /\ EndOfOptions
       /\ \/ TcpVty /\ Count(argv, Is_A) >= 2
          \/ TcpVty /\ Count(argv, Is_P) >= 2
          \/ Count(argv, Is_S) >= 2 )
     => /\ errors > 0
        /\ pc \in {"tail", "exited"}
        /\ pc = "exited" => status = <<1>>
  /\ ( /\ EndOfOptions
       /\ TcpVty
       /\ Len(argv) = 3
       /\ Count(argv, Is_A) = 1
       /\ Count(argv, Is_P) = 1
       /\ Count(argv, Is_S) = 1
       /\ \A i \in 1..3 : Is_P(argv[i]) => IsUnsignedInteger(argv[i].val) )
     => /\ errors = 0
        /\ pc \in {"tail", "parsed", "serving"}
        /\ status = <<>>

C1_Witness ==
  /\ pc = "exited"
  /\ EndOfOptions
  /\ status = <<1>>
  /\ TcpVty
  /\ Count(argv, Is_A) = 2
  /\ errors = 1

(* C2: with the remote listener enabled, the first -P value is accepted   *)
(* (no error recorded, port stored) if and only if it is non-empty and an *)
(* unsigned integer from its first character to its last.                 *)
C2_AcceptedIffUnsignedInteger ==
  ( /\ TcpVty
    /\ pc = "scan"
    /\ optind = 2
    /\ Is_P(argv[1]) )
  => ( (errors = 0 /\ vty_port_set = 1) <=> IsUnsignedInteger(argv[1].val) )

(* C3: with FRR_NO_TCPVTY set, every -A and -P is handed back unhandled   *)
(* (or not recognized by the scanner at all) and nothing is stored: the   *)
(* descriptor's address and port are as before parsing, and neither       *)
(* set-once flag is raised.                                               *)
C3_DisabledListenerUntouched ==
  ~TcpVty =>
    /\ di.vty_addr = Daemon(di.flags, di.printhelp).vty_addr
    /\ di.vty_port = Daemon(di.flags, di.printhelp).vty_port
    /\ vty_addr_set = 0
    /\ vty_port_set = 0
    /\ \A i \in 1..Len(argv) :
         ( /\ i = optind - 1
           /\ ~EndOfOptions
           /\ Is_A(argv[i]) \/ Is_P(argv[i]) )
         => /\ ret = 1
            /\ opt \in {Code.A, Code.P, Code.unknown}
            /\ errors = 0 \/ Count(Scanned, Is_S) >= 2

C3_Witness ==
  /\ ~TcpVty
  /\ pc = "caller"
  /\ opt = Code.A
  /\ Is_A(argv[optind - 1])
  /\ argv[optind - 1].val # NULL
  /\ di.vty_addr = NULL

\* The i-th argument is the first -h or -v of the command line.
FirstHelp(i) ==
  /\ Is_h(argv[i]) \/ Is_v(argv[i])
  /\ \A j \in 1..(i - 1) : ~(Is_h(argv[j]) \/ Is_v(argv[j]))

\* The last writes of the process are the help text and its footer, on fd.
HelpWritten(fd) ==
  /\ Len(out) >= 2
  /\ out[Len(out) - 1] \in {Write(fd, "printhelp"), Write(fd, "Usage")}
  /\ out[Len(out)] = Write(fd, "Report bugs to")

FinalSegment(p) ==
  LET at == {i \in 1..strlen(p) : CharAt(p, i) = "/"} IN
  IF at = {} THEN p
  ELSE LET last == CHOOSE i \in at : \A j \in at : j <= i
       IN  Str([i \in 1..(strlen(p) - last) |-> CharAt(p, last + i)])

(* C5: frr_vty_serv(base_path) binds the local listener at base_path when *)
(* no override was given, and at override, "/" and the final segment of   *)
(* base_path when one was.                                                *)
C5_BindsExactPath ==
  pc = "serving" =>
    vty_serv[2].path =
      IF di.vty_sock_path = NULL THEN vty_serv[1]
      ELSE Cat(Cat(di.vty_sock_path, Rep("/", 1)), FinalSegment(vty_serv[1]))

\* The parts of the fragments frags, concatenated in their order.
RECURSIVE AllOptstr(_)
AllOptstr(frags) ==
  IF frags = <<>> THEN <<>>
  ELSE Cat(Head(frags).optstr, AllOptstr(Tail(frags)))

RECURSIVE AllHelpstr(_)
AllHelpstr(frags) ==
  IF frags = <<>> THEN <<>>
  ELSE Cat(Head(frags).helpstr, AllHelpstr(Tail(frags)))

RECURSIVE AllLongOpts(_)
AllLongOpts(frags) ==
  IF frags = <<>> THEN <<>>
  ELSE LongOpts(Head(frags).longopts) \o AllLongOpts(Tail(frags))

\* The argument a is an option of one of the registered fragments.
IsRegistered(a) ==
  \E k \in 1..Len(registered) :
    LET os == registered[k] IN
    IF a.form = "short"
    THEN a.key[1].c # ":" /\ \E i \in 1..Len(os.optstr) : os.optstr[i].c = a.key[1].c
    ELSE \E i \in 1..Len(LongOpts(os.longopts)) : os.longopts[i].name = a.key

(* C6: while the registered fragments are within capacity, the combined   *)
(* short-option string, long-option array and help text are the           *)
(* concatenation, in registration order, of the fragments' parts; and a   *)
(* command line of one registered option is recognized by the scanner and *)
(* scanned without an error.                                              *)
C6_TableIsConcatenation ==
  pc \notin {"aborted", "undefined"} =>
    /\ comb_optstr = AllOptstr(registered)
    /\ comb_helpstr = AllHelpstr(registered)
    /\ LET all == AllLongOpts(registered) IN
         /\ comb_next_lo = Len(all)
         /\ \A i \in 1..Len(all) : comb_lo[i - 1] = all[i]
    /\ ( /\ Len(argv) = 1
         /\ optind = 2
         /\ IsRegistered(argv[1]) )
       => /\ errors = 0
          /\ ~EndOfOptions => opt # Code.unknown
          /\ pc = "exited" =>
               status = <<0>> \/ (~EndOfOptions /\ ~DaemonOwns(opt) /\ ret = 1)

C6_Witness ==
  /\ pc = "parsed"
  /\ comb_next_lo = LO_SIZE - 1
  /\ Len(registered) > Len(PreinitFragments(di.flags)) + 1
  /\ argv = <<Long(os_pad_lo, LoPad, NULL)>>
  /\ errors = 0

(* C7: the combined short-option string, long-option array and help text  *)
(* stay within their buffers, terminators included, and no registration   *)
(* goes on after writing past one.                                        *)
C7_CapacityEnforced ==
  /\ strlen(comb_optstr) < OPTSTR_SIZE
  /\ comb_next_lo < LO_SIZE
  /\ strlen(comb_helpstr) < HELPSTR_SIZE
  /\ pc # "undefined"

(* C8: a step that records an error records one, in the scan, and leaves  *)
(* the process scanning; frr_getopt exits, with status 1, exactly when    *)
(* the scanner has reported the end of the options and the error count is *)
(* not 0; and it never returns the end of the options to its caller with  *)
(* a nonzero error count.                                                 *)
C8_ErrorsSurfaceAtEnd ==
  [][ /\ errors' # errors =>
           /\ errors' = errors + 1
           /\ pc = "scan"
           /\ pc' = "scan"
           /\ status' = <<>>
           /\ optind' = optind + 1
      /\ (pc = "tail" /\ EndOfOptions /\ errors > 0) =>
           pc' = "exited" /\ status' = <<1>>
      /\ (pc = "tail" /\ status' # <<>>) =>
           EndOfOptions /\ errors > 0 /\ status' = <<1>>
      /\ pc' = "parsed" => errors' = 0 /\ EndOfOptions'
    ]_vars

C8_Witness ==
  /\ pc = "exited"
  /\ EndOfOptions
  /\ status = <<1>>
  /\ errors = 2
  /\ optind = 3

\* The codes frr_opt has a case for.
Recognizes(o) ==
  o \in {Code.h, Code.v, Code.A, Code.P, OPTION_VTYSOCK, Code.u, Code.g}

LastOf(T(_), d) ==
  LET at == {i \in 1..Len(Scanned) : T(Scanned[i])} IN
  IF at = {} THEN d
  ELSE Scanned[CHOOSE i \in at : \A j \in at : j <= i].val

(* C10: with privilege separation enabled the user and the group are the  *)
(* values of the last -u and the last -g scanned, and the error count is  *)
(* what the other options made it (one per --vty_port abc, none with the  *)
(* listener disabled): no -u or -g changes it.  With privilege separation *)
(* disabled the user and group stay as they were, and a -u or -g is       *)
(* handed back to the caller unhandled.                                   *)
C10_LastUserGroupWins ==
  /\ errors = IF TcpVty THEN Count(Scanned, Is_P) ELSE 0
  /\ PrivSep =>
       /\ di.user = LastOf(Is_u, Daemon(di.flags, di.printhelp).user)
       /\ di.group = LastOf(Is_g, Daemon(di.flags, di.printhelp).group)
  /\ ~PrivSep =>
       /\ di.user = Daemon(di.flags, di.printhelp).user
       /\ di.group = Daemon(di.flags, di.printhelp).group
       /\ ( /\ optind > 1
            /\ ~EndOfOptions
            /\ Is_u(argv[optind - 1]) \/ Is_g(argv[optind - 1]) )
          => ret = 1 /\ opt = Code.unknown

C10_Witness ==
  /\ PrivSep
  /\ pc = "parsed"
  /\ Count(argv, Is_u) = 2
  /\ Count(argv, Is_g) = 1
  /\ di.user = argv[2].val
  /\ argv[1].val # argv[2].val
  /\ Is_u(argv[1]) /\ Is_u(argv[2])
  /\ errors = 0

\* The five stages of frr_init, and those of its calls that are stages.
StageNames ==
  <<"srandom", "openzlog", "zprivs_init", "thread_master_create",
    "signal_init">>

IsStage(c) == \E i \in 1..Len(StageNames) : c.fn = StageNames[i]

StageCalls == SelectSeq(calls, IsStage)

(* C11: the stages frr_init has executed are an initial part of: seed    *)
(* randomness, initialize logging, initialize privilege separation,      *)
(* create the scheduling context, register the signals; each at most     *)
(* once.  When frr_init has returned all five were executed, and what it *)
(* returned is the context the fourth created and the one the signals    *)
(* were registered against.                                              *)
C11_StagesInOrder ==
  /\ Len(StageCalls) <= Len(StageNames)
  /\ \A i \in 1..Len(StageCalls) : StageCalls[i].fn = StageNames[i]
  /\ master # <<>> =>
       /\ Len(StageCalls) = Len(StageNames)
       /\ StageCalls[4].master = master
       /\ StageCalls[5].master = master

C11_Witness ==
  /\ pc = "parsed"
  /\ master = <<"master2">>
  /\ Len(calls) = 6
  /\ calls[6] = Call("signal_init", <<>>, <<"master2">>)
  /\ calls[4].privs = <<user1, NULL>>

\* What the step has written.
Written == SubSeq(out', Len(out) + 1, Len(out'))

(* C12: a step in which frr_help_exit is called ends the process, with   *)
(* status 0 when the dispatcher calls it for -h, 1 when frr_getopt calls *)
(* it at the end of the options, and one of the caller's statuses when   *)
(* the caller does.  All it writes goes to standard output when that     *)
(* status is 0 and to standard error otherwise: the help text (the       *)
(* descriptor's renderer when it has one, the usage text when not) and,  *)
(* last, the bug-report footer.                                          *)
C12_HelpExitWritesAndExits ==
  [][ (status' # status /\ opt' # Code.v /\ calls' = calls) =>
        LET st == status'[1]
            fd == IF st = 0 THEN "stdout" ELSE "stderr"
            n  == Len(Written)
        IN  /\ status = <<>>
            /\ pc' = "exited"
            /\ pc = "scan" => st = 0
            /\ pc = "tail" => st = 1
            /\ pc = "caller" => st \in ExitStatuses
            /\ n >= 2
            /\ \A i \in 1..n : Written[i].fd = fd
            /\ Written[n] = Write(fd, "Report bugs to")
            /\ Written[n - 1] =
                 IF di.printhelp # NULL THEN Write(fd, "printhelp")
                 ELSE Write(fd, "Usage")
            /\ n = IF st = 0 THEN 2 ELSE 3
    ]_vars

C12_Witness ==
  /\ pc = "exited"
  /\ status = <<2>>
  /\ di.printhelp # NULL
  /\ out = <<Write("stderr", "Invalid options."),
             Write("stderr", "printhelp"),
             Write("stderr", "Report bugs to")>>

(* C13: the frr_preinit call leaves in the combined table exactly the   *)
(* mandatory fragment, then the privilege fragment if FRR_NO_PRIVSEP is  *)
(* clear, then the listener fragment if FRR_NO_TCPVTY is clear, whatever *)
(* the table held before the call.                                       *)
C13_PreinitSetsExactTable ==
  [][ (pc = "main" /\ pc' = "setup") =>
        LET frags == PreinitFragments(di.flags)
            all   == AllLongOpts(frags)
        IN  /\ comb_optstr' = AllOptstr(frags)
            /\ comb_helpstr' = AllHelpstr(frags)
            /\ comb_next_lo' = Len(all)
            /\ \A i \in 1..Len(all) : comb_lo'[i - 1] = all[i]
    ]_vars

(* C14: with FRR_NO_TCPVTY set, frr_vty_serv asks vty_serv_sock for no   *)
(* network listener: it hands it no address and port 0, whatever the     *)
(* descriptor holds; the local listener's path is handed over in every   *)
(* case.                                                                 *)
C14_NoNetworkListenerWhenDisabled ==
  pc = "serving" =>
    /\ vty_serv[2].path # NULL
    /\ ~TcpVty => vty_serv[2].addr = NULL /\ vty_serv[2].port = 0

\* An argument scanned so far was a repeated -A, -P or --vty_socket, a -P
\* with a malformed value, or an option nobody registered.
ScannedAnError ==
  \E i \in 1..(optind - 1) :
    \/ argv[i] = arg_Z
    \/ TcpVty /\ Is_P(argv[i]) /\ ~IsUnsignedInteger(argv[i].val)
    \/ \E j \in 1..(i - 1) :
         \/ TcpVty /\ Is_A(argv[i]) /\ Is_A(argv[j])
         \/ TcpVty /\ Is_P(argv[i]) /\ Is_P(argv[j])
         \/ Is_S(argv[i]) /\ Is_S(argv[j])

Repeats(T(_)) ==
  IF Count(Scanned, T) > 1 THEN Count(Scanned, T) - 1 ELSE 0

\* The value of the first scanned argument that passes T, d when there is
\* none.
FirstOf(T(_), d) ==
  LET at == {i \in 1..Len(Scanned) : T(Scanned[i])} IN
  IF at = {} THEN d
  ELSE Scanned[CHOOSE i \in at : \A j \in at : i <= j].val

\* The errors the scanned arguments amount to: one for every repeat of -A,
\* -P and --vty_socket, one for a first -P that is malformed.
ErrorsScanned ==
  Repeats(Is_S)
    + (IF TcpVty
       THEN Repeats(Is_A) + Repeats(Is_P)
              + (IF /\ Count(Scanned, Is_P) > 0
                    /\ ~IsUnsignedInteger(FirstOf(Is_P, NULL))
                 THEN 1 ELSE 0)
       ELSE 0)

(* C17: the error count and the set-once flags are the process's, not one *)
(* frr_getopt call's: no step decreases them, the steps that enter and    *)
(* leave frr_getopt leave them as they are, and the count is at all times *)
(* the number of errors among all the arguments scanned, whatever         *)
(* caller-owned options lie between them; with a count above 0 the end of *)
(* the options leads to the failure exit and nowhere else.                *)
C17_ErrorStateOutlivesCalls ==
  /\ [](/\ errors = ErrorsScanned
        /\ (EndOfOptions /\ errors > 0) =>
             /\ pc \in {"tail", "exited"}
             /\ pc = "exited" => status = <<1>>)
  /\ [][ /\ errors' >= errors
         /\ vty_addr_set' >= vty_addr_set
         /\ vty_port_set' >= vty_port_set
         /\ di.vty_sock_path # NULL => di'.vty_sock_path # NULL
         /\ pc \in {"setup", "tail", "caller"} =>
              UNCHANGED <<errors, vty_addr_set, vty_port_set, di>>
       ]_vars

C17_Witness ==
  /\ argv = <<Short("A", addr1), Short("x", NULL), Long(os_vty, 1, addr2)>>
  /\ DaemonOwns(Code.x)
  /\ TcpVty
  /\ pc = "exited"
  /\ EndOfOptions
  /\ status = <<1>>
  /\ errors = 1

\* The number a string of decimal digits denotes.
RECURSIVE DecimalValue(_, _)
DecimalValue(s, k) ==
  IF k = 0 THEN 0
  ELSE 10 * DecimalValue(s, k - 1) + DigitVal(CharAt(s, k))

IsDecimal(s) ==
  /\ s # <<>>
  /\ AllIn(s, 1, DecimalDigits)
  /\ CharAt(s, 1) # "0" \/ strlen(s) = 1

(* C18: the stored listener address, the stored port (when the first -P   *)
(* was a decimal number) and the stored socket path are the values of the *)
(* first -A, -P and --vty_socket scanned; the step that scans a repeat of *)
(* one of them adds one to the error count and changes nothing else of    *)
(* the descriptor or the set-once flags.                                  *)
C18_FirstOccurrenceKept ==
  /\ [](/\ di.vty_sock_path = FirstOf(Is_S, NULL)
        /\ TcpVty =>
             /\ di.vty_addr = FirstOf(Is_A, NULL)
             /\ (Count(Scanned, Is_P) > 0 /\ IsDecimal(FirstOf(Is_P, NULL))) =>
                  di.vty_port =
                    DecimalValue(FirstOf(Is_P, NULL), strlen(FirstOf(Is_P, NULL))))
  /\ [][ ( /\ pc = "scan"
           /\ optind <= Len(argv)
           /\ \/ Is_S(argv[optind]) /\ Count(Scanned, Is_S) > 0
              \/ TcpVty /\ Is_A(argv[optind]) /\ Count(Scanned, Is_A) > 0
              \/ TcpVty /\ Is_P(argv[optind]) /\ Count(Scanned, Is_P) > 0 )
         => /\ errors' = errors + 1
            /\ UNCHANGED <<di, vty_addr_set, vty_port_set>>
       ]_vars

C18_Witness ==
  /\ TcpVty
  /\ pc = "tail"
  /\ EndOfOptions
  /\ argv = <<Long(os_vty, 2, port7), Long(os_vty, 1, addr2),
              Short("A", addr1)>>
  /\ di.vty_addr = addr2
  /\ di.vty_port = 7
  /\ errors = 1

\* The number of decimal digits s starts with.
LeadingDigits(s) ==
  LET not == {i \in 1..strlen(s) : CharAt(s, i) \notin DecimalDigits}
  IN  IF not = {} THEN strlen(s)
      ELSE (CHOOSE i \in not : \A j \in not : i <= j) - 1

\* A value that is certainly no number: not an unsigned integer, and not
\* one behind a sign or a blank either.
IsMalformed(s) ==
  /\ ~IsUnsignedInteger(s)
  /\ s = <<>> \/ CharAt(s, 1) \notin {"-", "+", " "}

\* The number at the start of a malformed value: that of its leading
\* decimal digits, 0 when it has none or they start with 0.
NumericPrefix(s) ==
  IF LeadingDigits(s) = 0 \/ CharAt(s, 1) = "0" THEN 0
  ELSE DecimalValue(s, LeadingDigits(s))

C20_TerminatorFollowsDescriptors ==
  /\ [](pc = "scan" =>
          LET all == AllLongOpts(registered) IN
            /\ comb_next_lo = Len(all)
            /\ comb_next_lo < LO_SIZE
            /\ \A i \in 1..Len(all) : comb_lo[i - 1] = all[i]
            /\ comb_lo[comb_next_lo].name = NULL
            /\ LoEnd(comb_lo) = comb_next_lo)
  /\ [][ (pc # "scan" /\ pc' = "scan") =>
           /\ comb_next_lo < LO_SIZE
           /\ comb_lo'[comb_next_lo].name = NULL
           /\ \A i \in 0..(LO_SIZE - 1) :
                i # comb_next_lo => comb_lo'[i] = comb_lo[i]
           /\ comb_next_lo' = comb_next_lo
           /\ comb_optstr' = comb_optstr
           /\ comb_helpstr' = comb_helpstr
           /\ registered' = registered ]_vars

C20_Witness ==
  /\ pc = "scan"
  /\ optind = 1
  /\ comb_next_lo = LO_SIZE - 1
  /\ comb_lo[LO_SIZE - 2].name # NULL
  /\ comb_lo[LO_SIZE - 1].name = NULL

====
